---- MODULE Spec2Model ----
(***************************************************************************)
(* Go-RCON (RefractorGSCM/RCON): the single-socket client.                 *)
(*                                                                         *)
(* One session of rcon.Client: Connect/authenticate, the writer goroutine, *)
(* the reader goroutine with its dispatcher goroutine, ExecCommand and     *)
(* ExecCommandNoResponse callers, Close and disconnect.  Unbuffered        *)
(* channels are rendezvous actions between the two goroutines involved, a  *)
(* closed channel is a flag, a time.After case is an action that may fire  *)
(* whenever its select is waiting, and a run-time panic stops the process. *)
(***************************************************************************)
EXTENDS Integers, Sequences, FiniteSets, TLC

\* ---------------------------------------------------------------- bounds
\* ExecCommand / ExecCommandNoResponse calls made in one run.
MaxCalls == 2
\* Packets the server sends after authentication in one run.
MaxInbound == 2
\* Close calls made in one run (two of them may overlap).
MaxCloses == 2
\* Length of the short bodies taken through Build and DecodeClientPacket.
MaxBodyLen == 3
\* Allocations made in one run of the allocator on its own.
MaxAllocs == 3
\* Calls of Connect in a run that connects again after a close.
MaxConnects == 2

\* ------------------------------------------------------ program constants
TypeAuth == 3
TypeAuthRes == 2
TypeCommand == 2
TypeCommandRes == 0
AuthFailedID == -1
MaxInt32 == 2147483647
int32Bytes == 4
endPadBytes == 1
payloadIDBytes == 4
payloadTypeBytes == 4
payloadNullBytes == 2
payloadMaxSize == 2048

\* --------------------------------------------------------------- errors
\* An error is the chain of its messages, outermost first, ending with its
\* cause; the nil error is the empty chain.
Nil == <<>>
ErrNotConnected == <<"not connected">>
ErrAuthentication == <<"authentication failed">>
ErrQueueTimeout == <<"queue timeout">>
ErrReadTimeout == <<"read timeout">>
EOF == <<"EOF">>
ErrClosedPipe == <<"io: read/write on closed pipe">>
ErrOther == <<"i/o timeout">>
ErrDial == <<"dial tcp: connection refused">>

\* errors.Wrap: nil stays nil, anything else gets the message in front.
Wrap(err, msg) == IF err = Nil THEN Nil ELSE <<msg>> \o err

\* errors.Cause: the innermost error of the chain.
Cause(err) == IF err = Nil THEN Nil ELSE <<err[Len(err)]>>

\* -------------------------------------------------------------- packets
NoPacket == [id |-> 0, type |-> -1, body |-> <<>>]

Packet(id, type, body) == [id |-> id, type |-> type, body |-> body]

\* ClientPacket.Body: the stored body with a null byte appended.
Body(p) == Append(p.body, 0)

\* body[:len(body)-1]
StripLast(b) == SubSeq(b, 1, Len(b) - 1)

\* BumpID without the wrap.
BumpIDNoWrap(c) == c + 1

\* getNextID's step: wrap to 1 instead of reaching MaxInt32.
BumpID(c) == IF c + 1 = MaxInt32 THEN 1 ELSE c + 1

\* SkipRestricted stepping over one restricted id only.
SkipOneRestricted(c, restricted) == IF c \in restricted THEN BumpID(c) ELSE c

RECURSIVE SkipRestricted(_, _)
SkipRestricted(c, restricted) ==
    IF c \in restricted THEN SkipRestricted(BumpID(c), restricted) ELSE c

getNextID(c, restricted) == SkipRestricted(BumpID(c), restricted)

\* Values of the counter from which allocations are made: the start, the
\* neighbourhood of the restricted ids, and the last values before the wrap.
AllocCounters == {0, 1, 9, 10, 11, MaxInt32 - 3, MaxInt32 - 2, MaxInt32 - 1}
\* Ids a configuration may restrict.
AllocPool == {1, 2, 10, 11, 12, MaxInt32 - 1}
AllocRestricted == SUBSET AllocPool

\* ------------------------------------------------------- the environment
\* The packets the server may send.  The client's own ids are 1 (AUTH), 2,
\* 3, ...; 7 is an id the client never allocated.  A packet's body tells
\* which packet it is.
InboundIDs == {2, 3, 7}
InboundPackets == {Packet(i, TypeCommandRes, <<100 + i>>) : i \in InboundIDs}

\* Answers the server may give to the AUTH packet.
AuthResponses ==
    {Packet(i, t, <<>>) : i \in {AuthFailedID, 1}, t \in {TypeAuthRes, TypeCommandRes}}

\* Configurations (rcon.Config): the restricted ids, the ids the broadcast
\* checker accepts (none for NewClient's default checker), and whether a
\* broadcast handler is set.
DefaultConfig ==
    [restricted |-> {}, broadcastIDs |-> {}, hasBroadcastHandler |-> FALSE]
BroadcastConfig ==
    [restricted |-> {}, broadcastIDs |-> {3}, hasBroadcastHandler |-> TRUE]
RestrictedConfig ==
    [restricted |-> {2}, broadcastIDs |-> {7}, hasBroadcastHandler |-> FALSE]

\* What the embedding program and the server do in one run: the
\* configuration, how many commands are executed, how many times Close is
\* called, how many packets the server sends, how many times Connect is
\* called.  Runs with several commands end by the server closing the
\* connection, runs with overlapping Close calls execute one command, and a
\* run that calls Connect again after a close executes none.
CommandRuns ==
    {[config |-> DefaultConfig, calls |-> MaxCalls, closes |-> 0, inbound |-> MaxInbound,
      connects |-> 1],
     [config |-> BroadcastConfig, calls |-> MaxCalls, closes |-> 0, inbound |-> 1,
      connects |-> 1]}
CloseRuns ==
    {[config |-> RestrictedConfig, calls |-> 1, closes |-> MaxCloses, inbound |-> 1,
      connects |-> 1]}
ReconnectRuns ==
    {[config |-> DefaultConfig, calls |-> 0, closes |-> 1, inbound |-> 0,
      connects |-> MaxConnects]}
Scenarios == CommandRuns \cup CloseRuns \cup ReconnectRuns

Callers == 1..MaxCalls
Closers == 1..MaxCloses
\* The reader goroutine, as a thread that may run disconnect.
Reader == 0
DiscThreads == Closers \cup {Reader}

VARIABLES
    config,              \* the session's Config
    scenario,            \* the calls and packets of this run
    connSet,             \* c.conn != nil
    sock,                \* the socket: "none", "open", "closed"
    terminate,           \* TRUE once the terminate channel is closed
    waitGroup,           \* the wait group's counter
    nextClientPacketID,  \* packet.nextClientPacketID
    readQueue,           \* map id -> mailbox channel (a channel is a number)
    chanCount,           \* mailbox channels made so far
    chanClosed,          \* mailbox channels that were closed
    connPc, connRes, authRes,     \* Connect: position, result, answer being checked
    connects,                     \* calls of Connect made so far
    wPc, wPkt, sent,              \* writer: position, packet held, packets written
    rPc, rPkt,                    \* reader loop: position, packet held
    terminateFlag,                \* startReader's local `terminate`
    dPc, dPkt, dChan,             \* dispatcher: position, packet, channel
    cPc, cKind, cPkt, cChan, cGot, cRes,  \* callers
    cStart,                       \* the session's state when the call was made
    kPc, kRes,                    \* Close calls
    disc,                         \* disconnect(err) in progress, per thread
    handlerLog,                   \* calls of the DisconnectHandler
    broadcasts,                   \* calls of the BroadcastHandler
    inbound,                      \* packets decoded by the reader so far
    panicked,                     \* "" or the run-time panic that ended the process
    allocated,                    \* ids returned by getNextID called on its own
    idReg,                        \* per caller, the value NewClientPacket holds between
                                  \* two accesses of the counter
    codec                         \* a packet taken through Build and DecodeClientPacket

vars == <<config, scenario, connSet, sock, terminate, waitGroup, nextClientPacketID,
          readQueue, chanCount, chanClosed, connPc, connRes, authRes,
          wPc, wPkt, sent, rPc, rPkt, terminateFlag, dPc, dPkt, dChan,
          cPc, cKind, cPkt, cChan, cGot, cRes, cStart, kPc, kRes, disc, handlerLog,
          broadcasts, inbound, panicked, connects, allocated, idReg, codec>>

\* The state of the packet package exercised on its own; a session leaves
\* it alone.
pureVars == <<allocated, idReg, codec>>
\* No packet is being built or decoded.
NoCodec == [pc |-> "none"]

connVars == <<connSet, sock>>
connectVars == <<connPc, connRes, authRes, connects>>
writerVars == <<wPc, wPkt, sent>>
readerVars == <<rPc, rPkt>>
dispVars == <<dPc, dPkt, dChan>>
callerVars == <<cPc, cKind, cPkt, cChan, cGot, cRes, cStart>>
closerVars == <<kPc, kRes>>
mailboxVars == <<readQueue, chanCount, chanClosed>>
sinkVars == <<handlerLog, broadcasts>>

\* A client as NewClient leaves it: nothing connected, no goroutine started,
\* empty mailbox table.
NoSession ==
    /\ connSet = FALSE
    /\ sock = "none"
    /\ terminate = FALSE
    /\ waitGroup = 0
    /\ readQueue = <<>>
    /\ chanCount = 0
    /\ chanClosed = {}
    /\ connPc = "fresh" /\ connRes = Nil /\ authRes = NoPacket
    /\ connects = 0
    /\ idReg = [c \in Callers |-> 0]
    /\ wPc = "none" /\ wPkt = NoPacket /\ sent = <<>>
    /\ rPc = "none" /\ rPkt = NoPacket
    /\ terminateFlag = FALSE
    /\ dPc = "none" /\ dPkt = NoPacket /\ dChan = 0
    /\ cPc = [c \in Callers |-> "idle"]
    /\ cKind = [c \in Callers |-> "none"]
    /\ cStart = [c \in Callers |-> "none"]
    /\ cPkt = [c \in Callers |-> NoPacket]
    /\ cChan = [c \in Callers |-> 0]
    /\ cGot = [c \in Callers |-> NoPacket]
    /\ cRes = [c \in Callers |-> [body |-> <<>>, err |-> Nil]]
    /\ kPc = [k \in Closers |-> "idle"]
    /\ kRes = [k \in Closers |-> Nil]
    /\ disc = [t \in DiscThreads |-> [pc |-> "none", err |-> Nil]]
    /\ handlerLog = <<>>
    /\ broadcasts = <<>>
    /\ inbound = 0
    /\ panicked = ""

\* NewClient in a run of scenario sc, in a process that has allocated no id.
InitOf(sc) ==
    /\ scenario = sc
    /\ config = sc.config
    /\ nextClientPacketID = 0
    /\ allocated = <<>>
    /\ codec = NoCodec
    /\ NoSession

\* The allocator called on its own: the counter is any value a process may
\* have reached, the restricted ids any set of the pool.
AllocInit ==
    /\ scenario = [config |-> DefaultConfig, calls |-> 0, closes |-> 0, inbound |-> 0,
                   connects |-> 0]
    /\ \E R \in AllocRestricted :
          config = [restricted |-> R, broadcastIDs |-> {}, hasBroadcastHandler |-> FALSE]
    /\ nextClientPacketID \in AllocCounters
    /\ allocated = <<>>
    /\ codec = NoCodec
    /\ NoSession

Init == \E sc \in Scenarios : InitOf(sc)

Alive == panicked = ""

\* A public call is made while no Connect is in progress.
NoConnectRunning == connPc \in {"fresh", "returned"}

\* ---------------------------------------------------------- allocator
\* What a call of the allocator leaves alone.
sessionVars == <<scenario, connVars, terminate, waitGroup, mailboxVars, connectVars,
                 writerVars, readerVars, terminateFlag, dispVars, callerVars,
                 closerVars, disc, sinkVars, inbound, panicked>>

\* NewClientPacket's first statement, nextClientPacketID = getNextID(...):
\* the id returned, with the counter it was computed from.
AllocateID ==
    /\ Len(allocated) < MaxAllocs
    /\ nextClientPacketID' = getNextID(nextClientPacketID, config.restricted)
    /\ allocated' = Append(allocated, [from |-> nextClientPacketID,
                                      id |-> nextClientPacketID'])
    /\ UNCHANGED <<config, idReg, codec, sessionVars>>

AllocNext == AllocateID

AllocSpec == AllocInit /\ [][AllocNext]_vars

\* -------------------------------------------------------------- codec
\* endian.Little and endian.Big.
Modes == {"little", "big"}

\* The bytes '\x00' and '\n'.
NullByte == 0
NewlineByte == 10

\* io.EOF is EOF above; io.ErrUnexpectedEOF and the error of the payload
\* builder.
ErrUnexpectedEOF == <<"unexpected EOF">>
ErrPayloadTooLarge == <<"payload too large, max size is: 2048">>

\* A sequence back to front.
Reverse(b) == [i \in 1..Len(b) |-> b[Len(b) + 1 - i]]

\* The four bytes of an int32, low byte first: the value in two's
\* complement, a negative value being its distance from -2^31 with the top
\* bit set.
LowFirst(v) ==
    LET w == IF v >= 0 THEN v ELSE (v + MaxInt32) + 1
        top == IF v >= 0 THEN 0 ELSE 128
    IN  <<w % 256, (w \div 256) % 256, (w \div 65536) % 256, (w \div 16777216) + top>>

\* binary.Write(buffer, order, v) of an int32.
PutInt32(mode, v) == IF mode = "little" THEN LowFirst(v) ELSE Reverse(LowFirst(v))

\* binary.Read(reader, mode, &v) into an int32, given its four bytes.
GetInt32(mode, b) ==
    LET l == IF mode = "little" THEN b ELSE Reverse(b)
        w == l[1] + 256 * l[2] + 65536 * l[3] + 16777216 * (l[4] % 128)
    IN  IF l[4] >= 128 THEN (w - MaxInt32) - 1 ELSE w

\* Size with the stored body in place of Body().
SizeOfStoredBody(p) == int32Bytes + int32Bytes + Len(p.body) + endPadBytes

\* ClientPacket.Size.
Size(p) == int32Bytes + int32Bytes + Len(Body(p)) + endPadBytes

\* ClientPacket.Build: a write to a bytes.Buffer never fails, so the error is
\* always nil; there is no test of the length.
Build(mode, p) ==
    [bytes |-> PutInt32(mode, Size(p)) \o PutInt32(mode, p.id) \o PutInt32(mode, p.type)
                  \o Body(p) \o <<NullByte>>,
     err |-> Nil]

\* payload.getSize.
getSize(p) == Len(p.body) + (payloadIDBytes + payloadTypeBytes + payloadNullBytes)

\* buildPacketFromPayload, the builder of the two-socket client: always
\* little-endian, and an error when the buffer reaches payloadMaxSize.
buildPacketFromPayload(p) ==
    LET buffer == PutInt32("little", getSize(p)) \o PutInt32("little", p.id)
                     \o PutInt32("little", p.type) \o p.body \o <<NullByte, NullByte>>
    IN  IF Len(buffer) >= payloadMaxSize
           THEN [bytes |-> <<>>, err |-> ErrPayloadTooLarge]
           ELSE [bytes |-> buffer, err |-> Nil]

RECURSIVE TrimLeft(_, _)
TrimLeft(b, ch) == IF b # <<>> /\ b[1] = ch THEN TrimLeft(Tail(b), ch) ELSE b

RECURSIVE TrimRight(_, _)
TrimRight(b, ch) ==
    IF b # <<>> /\ b[Len(b)] = ch THEN TrimRight(SubSeq(b, 1, Len(b) - 1), ch) ELSE b

\* bytes.Trim(b, cutset) with a cutset of one byte: both ends are trimmed.
Trim(b, ch) == TrimRight(TrimLeft(b, ch), ch)

\* The error of reading n bytes when only k < n are left.
ShortRead(k) == IF k = 0 THEN EOF ELSE ErrUnexpectedEOF

\* DecodeClientPacket on a reader that holds the bytes w.  make([]byte, n)
\* with a negative n panics.
DecodeClientPacket(mode, w) ==
    IF Len(w) < 4 THEN [pkt |-> NoPacket, err |-> ShortRead(Len(w)), panic |-> FALSE]
    ELSE IF Len(w) < 8 THEN [pkt |-> NoPacket, err |-> ShortRead(Len(w) - 4), panic |-> FALSE]
    ELSE IF Len(w) < 12 THEN [pkt |-> NoPacket, err |-> ShortRead(Len(w) - 8), panic |-> FALSE]
    ELSE LET size == GetInt32(mode, SubSeq(w, 1, 4))
             id == GetInt32(mode, SubSeq(w, 5, 8))
             pType == GetInt32(mode, SubSeq(w, 9, 12))
             bodyLen == size - 4 - 4
         IN  IF bodyLen < 0 THEN [pkt |-> NoPacket, err |-> Nil, panic |-> TRUE]
             ELSE IF Len(w) - 12 < bodyLen
                 THEN [pkt |-> NoPacket, err |-> ShortRead(Len(w) - 12), panic |-> FALSE]
             ELSE [pkt |-> Packet(id, pType,
                                  Trim(Trim(SubSeq(w, 13, 12 + bodyLen), NullByte),
                                       NewlineByte)),
                   err |-> Nil, panic |-> FALSE]

\* The error of the two-socket client's decoder on a body length below 1.
ErrEmptyBody == <<"empty packet body received">>

\* buildPayloadFromPacket, the decoder of the two-socket client, on a socket
\* that holds the bytes w: always little-endian, and a body length below 1
\* is an error.
buildPayloadFromPacket(w) ==
    IF Len(w) < 4 THEN [pkt |-> NoPacket, err |-> ShortRead(Len(w)), panic |-> FALSE]
    ELSE IF Len(w) < 8 THEN [pkt |-> NoPacket, err |-> ShortRead(Len(w) - 4), panic |-> FALSE]
    ELSE IF Len(w) < 12 THEN [pkt |-> NoPacket, err |-> ShortRead(Len(w) - 8), panic |-> FALSE]
    ELSE LET packetSize == GetInt32("little", SubSeq(w, 1, 4))
             packetID == GetInt32("little", SubSeq(w, 5, 8))
             packetType == GetInt32("little", SubSeq(w, 9, 12))
             packetBodyLen == packetSize - (payloadIDBytes + payloadTypeBytes)
         IN  IF packetBodyLen < 1 THEN [pkt |-> NoPacket, err |-> ErrEmptyBody, panic |-> FALSE]
             ELSE IF Len(w) - 12 < packetBodyLen
                 THEN [pkt |-> NoPacket, err |-> ShortRead(Len(w) - 12), panic |-> FALSE]
             ELSE [pkt |-> Packet(packetID, packetType,
                                  Trim(Trim(SubSeq(w, 13, 12 + packetBodyLen), NullByte),
                                       NewlineByte)),
                   err |-> Nil, panic |-> FALSE]

\* Bytes of the short bodies: null, newline, two letters.
BodyBytes == {NullByte, NewlineByte, 65, 66}

RECURSIVE SeqsUpTo(_, _)
SeqsUpTo(S, n) ==
    IF n = 0 THEN {<<>>}
    ELSE LET shorter == SeqsUpTo(S, n - 1)
         IN  shorter \cup {Append(b, x) : b \in {t \in shorter : Len(t) = n - 1}, x \in S}

\* A body of n letters.
LongBody(n) == [i \in 1..n |-> 65]

\* The packets built: every short body with a few ids and types, and bodies
\* around the length at which the frame reaches payloadMaxSize bytes.
CodecPackets ==
    {Packet(i, t, b) : i \in {1, AuthFailedID, 258, MaxInt32 - 1},
                       t \in {TypeAuth, TypeCommand, TypeCommandRes},
                       b \in SeqsUpTo(BodyBytes, MaxBodyLen)}
    \cup {Packet(1, TypeCommand, LongBody(n)) :
             n \in {payloadMaxSize - 15, payloadMaxSize - 14, payloadMaxSize - 10}}

\* Size fields a server may announce: negative, zero, below and at the
\* eight bytes of id and type, and the sizes of the short bodies.
FrameSizes == {-1, 0, 7, 8, 9, 10, 11}

\* The bytes of a frame as they arrive: the three int32 fields, then what
\* follows them.
Frame(mode, size, id, type, rest) ==
    PutInt32(mode, size) \o PutInt32(mode, id) \o PutInt32(mode, type) \o rest

\* What a reader may find on the socket: frames with every announced size
\* and every short run of bytes after the header (fewer bytes than
\* announced when the connection ends early), and a header cut short.
ServerFrames(mode) ==
    {Frame(mode, n, 1, TypeCommandRes, b) :
        n \in FrameSizes, b \in SeqsUpTo(BodyBytes, MaxBodyLen)}
    \cup {<<>>, SubSeq(PutInt32(mode, 10), 1, 2),
          PutInt32(mode, 10) \o SubSeq(PutInt32(mode, 1), 1, 3)}

\* A packet to be built, or bytes of the server to be decoded, in a process
\* that runs no session.
CodecInit ==
    /\ scenario = [config |-> DefaultConfig, calls |-> 0, closes |-> 0, inbound |-> 0,
                   connects |-> 0]
    /\ config = DefaultConfig
    /\ nextClientPacketID = 0
    /\ allocated = <<>>
    /\ \/ \E m \in Modes, p \in CodecPackets :
             codec = [pc |-> "new", mode |-> m, pkt |-> p]
       \/ \E m \in Modes : \E w \in ServerFrames(m) :
             codec = [pc |-> "frame", mode |-> m, wire |-> w]
    /\ NoSession

\* p.Build() as sendPacket calls it.
CodecBuild ==
    /\ codec.pc = "new"
    /\ codec' = [pc |-> "built", mode |-> codec.mode, pkt |-> codec.pkt,
                 out |-> Build(codec.mode, codec.pkt)]
    /\ UNCHANGED <<config, nextClientPacketID, allocated, idReg, sessionVars>>

\* buildPacketFromPayload(request) as sendPayload calls it.
CodecBuildPayload ==
    /\ codec.pc = "new"
    /\ codec.mode = "little"
    /\ codec' = [pc |-> "builtPayload", mode |-> codec.mode, pkt |-> codec.pkt,
                 out |-> buildPacketFromPayload(codec.pkt)]
    /\ UNCHANGED <<config, nextClientPacketID, allocated, idReg, sessionVars>>

\* packet.DecodeClientPacket(c.EndianMode, reader) on the bytes Build made.
CodecDecode ==
    /\ codec.pc = "built"
    /\ codec.out.err = Nil
    /\ codec' = [pc |-> "decoded", mode |-> codec.mode, pkt |-> codec.pkt,
                 out |-> codec.out,
                 decoded |-> DecodeClientPacket(codec.mode, codec.out.bytes)]
    /\ UNCHANGED <<config, nextClientPacketID, allocated, idReg, sessionVars>>

\* packet.DecodeClientPacket(c.EndianMode, reader) on bytes of the server.
CodecDecodeFrame ==
    /\ codec.pc = "frame"
    /\ codec' = [pc |-> "decodedFrame", mode |-> codec.mode, wire |-> codec.wire,
                 decoded |-> DecodeClientPacket(codec.mode, codec.wire)]
    /\ UNCHANGED <<config, nextClientPacketID, allocated, idReg, sessionVars>>

\* buildPayloadFromPacket(c.cmdSocket) on bytes of the server.
CodecDecodePayload ==
    /\ codec.pc = "frame"
    /\ codec.mode = "little"
    /\ codec' = [pc |-> "decodedPayload", mode |-> codec.mode, wire |-> codec.wire,
                 decoded |-> buildPayloadFromPacket(codec.wire)]
    /\ UNCHANGED <<config, nextClientPacketID, allocated, idReg, sessionVars>>

CodecNext ==
    \/ CodecBuild
    \/ CodecBuildPayload
    \/ CodecDecode
    \/ CodecDecodeFrame
    \/ CodecDecodePayload

CodecSpec == CodecInit /\ [][CodecNext]_vars

\* ------------------------------------------------------------ Connect
\* authenticate without the test of the answer's id.
authenticateAnyID(sendErr, readErr, res) ==
    IF sendErr # Nil THEN Wrap(sendErr, "could not send packet")
    ELSE IF readErr # Nil THEN Wrap(readErr, "could not get auth response")
    ELSE IF res.type # TypeAuthRes
        THEN Wrap(readErr, "packet was not of the type auth response")
    ELSE Nil

\* Client.authenticate, given the error of sending the AUTH packet, the
\* error of the deadlined read and the packet read.
authenticate(sendErr, readErr, res) ==
    IF sendErr # Nil THEN Wrap(sendErr, "could not send packet")
    ELSE IF readErr # Nil THEN Wrap(readErr, "could not get auth response")
    ELSE IF res.type # TypeAuthRes
        THEN Wrap(readErr, "packet was not of the type auth response")
    ELSE IF res.id = AuthFailedID
        THEN Wrap(ErrAuthentication, "authentication failed")
    ELSE Nil

\* The session is closed and at rest: a disconnect ran to its end, every
\* goroutine of the session has exited and no public call is in progress.
Closed ==
    /\ handlerLog # <<>>
    /\ ~connSet
    /\ \A t \in DiscThreads : disc[t].pc = "none"
    /\ wPc \in {"none", "exited"}
    /\ rPc \in {"none", "exited"}
    /\ dPc \in {"none", "exited"}
    /\ \A c \in Callers : cPc[c] \in {"idle", "returned"}
    /\ \A k \in Closers : kPc[k] \in {"idle", "returned"}

\* Connect up to the dial: a failed dial returns, a successful one sets c.conn.
\* Connect tests nothing of the session's state: the program may call it on
\* a new client, and again on one that is closed.
ConnectDial ==
    /\ Alive
    /\ \/ connPc = "fresh"
       \/ connPc = "returned" /\ Closed /\ connects < scenario.connects
    /\ connects' = connects + 1
    /\ \/ /\ connPc' = "returned"
          /\ connRes' = Wrap(ErrDial, "tcp dial failure")
          /\ UNCHANGED connVars
       \/ /\ connPc' = "dialed"
          /\ connSet' = TRUE
          /\ sock' = "open"
          /\ UNCHANGED connRes
    /\ UNCHANGED <<config, scenario, pureVars, terminate, waitGroup, nextClientPacketID, mailboxVars,
                   authRes, writerVars, readerVars, terminateFlag, dispVars,
                   callerVars, closerVars, disc, sinkVars, inbound, panicked>>

\* authenticate up to its deadlined read: the AUTH packet takes the next id
\* and is sent, then the answer is read.  An error of either step ends
\* Connect with what authenticate makes of it.
ConnectAuthRead ==
    /\ Alive
    /\ connPc = "dialed"
    /\ nextClientPacketID' = getNextID(nextClientPacketID, config.restricted)
    /\ \/ \E sendErr \in {ErrOther} :
             /\ connRes' = authenticate(Wrap(sendErr, "could not send authentication packet"),
                                        Nil, NoPacket)
             /\ connPc' = "returned"
             /\ UNCHANGED authRes
       \/ \E readErr \in {ErrOther, EOF} :
             /\ connRes' = authenticate(Nil, Wrap(readErr, "could not read packet"), NoPacket)
             /\ connPc' = "returned"
             /\ UNCHANGED authRes
       \/ \E res \in AuthResponses :
             /\ authRes' = res
             /\ connPc' = "authRead"
             /\ UNCHANGED connRes
    /\ UNCHANGED <<config, scenario, pureVars, connVars, terminate, waitGroup, mailboxVars,
                   connects, writerVars, readerVars, terminateFlag, dispVars,
                   callerVars, closerVars, disc, sinkVars, inbound, panicked>>

\* The rest of authenticate and of Connect: the checks of the answer, and
\* when authenticate returned nil the two goroutines are started.
ConnectAuthCheck ==
    /\ Alive
    /\ connPc = "authRead"
    /\ LET err == authenticate(Nil, Nil, authRes)
       IN  /\ connRes' = err
           /\ wPc' = IF err = Nil THEN "start" ELSE wPc
           /\ rPc' = IF err = Nil THEN "start" ELSE rPc
    /\ connPc' = "returned"
    /\ authRes' = NoPacket
    /\ UNCHANGED <<config, scenario, pureVars, connVars, terminate, waitGroup, nextClientPacketID,
                   mailboxVars, connects, wPkt, sent, rPkt, terminateFlag, dispVars,
                   callerVars, closerVars, disc, sinkVars, inbound, panicked>>

\* ------------------------------------------------------------- writer
\* The writer goroutine starts: waitGroup.Add(1), then startWriter's select.
WriterStart ==
    /\ Alive
    /\ wPc = "start"
    /\ waitGroup' = waitGroup + 1
    /\ wPc' = "select"
    /\ UNCHANGED <<config, scenario, pureVars, connVars, terminate, nextClientPacketID, mailboxVars,
                   connectVars, wPkt, sent, readerVars, terminateFlag, dispVars,
                   callerVars, closerVars, disc, sinkVars, inbound, panicked>>

\* AfterEnqueue with createMailbox always true.
AfterEnqueueAlwaysMailbox(kind) == "mailbox"

\* What the caller does once enqueuePacket's send was accepted.
AfterEnqueue(kind) == IF kind = "response" THEN "mailbox" ELSE "returned"

\* case p := <-c.writeQueue, the rendezvous with enqueuePacket's send.
WriterReceive(c) ==
    /\ Alive
    /\ wPc = "select"
    /\ cPc[c] = "enqueue"
    /\ wPkt' = cPkt[c]
    /\ wPc' = "send"
    /\ cPc' = [cPc EXCEPT ![c] = AfterEnqueue(cKind[c])]
    /\ UNCHANGED <<config, scenario, pureVars, connVars, terminate, waitGroup, nextClientPacketID,
                   mailboxVars, connectVars, sent, readerVars, terminateFlag,
                   dispVars, cKind, cPkt, cChan, cGot, cRes, cStart, closerVars, disc,
                   sinkVars, inbound, panicked>>

\* WriterSend writing the packet ahead of what was written before.
WriterSendAhead ==
    /\ Alive
    /\ wPc = "send"
    /\ connSet
    /\ sent' = IF sock = "open" THEN <<wPkt>> \o sent ELSE sent
    /\ wPc' = "select"
    /\ wPkt' = NoPacket
    /\ UNCHANGED <<config, scenario, pureVars, connVars, terminate, waitGroup, nextClientPacketID,
                   mailboxVars, connectVars, readerVars, terminateFlag, dispVars,
                   callerVars, closerVars, disc, sinkVars, inbound, panicked>>

\* sendPacket in the writer: c.conn.Write on a nil handle panics, on a closed
\* or failing socket returns an error that is only logged.
WriterSend ==
    /\ Alive
    /\ wPc = "send"
    /\ IF ~connSet
          THEN /\ panicked' = "writer: nil pointer dereference"
               /\ UNCHANGED <<wPc, wPkt, sent>>
          ELSE /\ sent' = IF sock = "open" THEN Append(sent, wPkt) ELSE sent
               /\ wPc' = "select"
               /\ wPkt' = NoPacket
               /\ UNCHANGED panicked
    /\ UNCHANGED <<config, scenario, pureVars, connVars, terminate, waitGroup, nextClientPacketID,
                   mailboxVars, connectVars, readerVars, terminateFlag, dispVars,
                   callerVars, closerVars, disc, sinkVars, inbound>>

\* case <-c.terminate in the writer: return, and the deferred waitGroup.Done.
WriterTerminate ==
    /\ Alive
    /\ wPc = "select"
    /\ terminate
    /\ wPc' = "exited"
    /\ waitGroup' = waitGroup - 1
    /\ UNCHANGED <<config, scenario, pureVars, connVars, terminate, nextClientPacketID, mailboxVars,
                   connectVars, wPkt, sent, readerVars, terminateFlag, dispVars,
                   callerVars, closerVars, disc, sinkVars, inbound, panicked>>

\* ------------------------------------------------------------- reader
\* c.BroadcastChecker(p): NewClient's default accepts nothing, a preset
\* accepts the packets whose id is one of its broadcast ids.
BroadcastChecker(p) == p.id \in config.broadcastIDs

\* The string startReader gives to the BroadcastHandler.
BroadcastBody(p) == StripLast(Body(p))

\* A call of the BroadcastHandler, with whether a mailbox of the packet's id
\* existed at the time.
BroadcastCall(p) == [body |-> BroadcastBody(p), hadMailbox |-> p.id \in DOMAIN readQueue]

\* The reader goroutine starts: waitGroup.Add(1), then startReader up to its
\* loop, which starts the dispatcher goroutine.
ReaderStart ==
    /\ Alive
    /\ rPc = "start"
    /\ waitGroup' = waitGroup + 1
    /\ rPc' = "loop"
    /\ dPc' = "select"
    /\ terminateFlag' = FALSE
    /\ UNCHANGED <<config, scenario, pureVars, connVars, terminate, nextClientPacketID, mailboxVars,
                   connectVars, writerVars, rPkt, dPkt, dChan, callerVars,
                   closerVars, disc, sinkVars, inbound, panicked>>

\* if terminate { break }, and after the loop the deferred waitGroup.Done.
\* The flag is written by the dispatcher without synchronisation; the loop
\* calls readPacket in every iteration, so the build reloads it each time.
ReaderLoop ==
    /\ Alive
    /\ rPc = "loop"
    /\ IF terminateFlag
          THEN /\ rPc' = "exited"
               /\ waitGroup' = waitGroup - 1
          ELSE /\ rPc' = "read"
               /\ UNCHANGED waitGroup
    /\ UNCHANGED <<config, scenario, pureVars, connVars, terminate, nextClientPacketID, mailboxVars,
                   connectVars, writerVars, rPkt, terminateFlag, dispVars,
                   callerVars, closerVars, disc, sinkVars, inbound, panicked>>

\* readPacket's first test: a nil handle is ErrNotConnected, on which the
\* loop continues.
ReaderCheckConn ==
    /\ Alive
    /\ rPc = "read"
    /\ rPc' = IF connSet THEN "decode" ELSE "loop"
    /\ UNCHANGED <<config, scenario, pureVars, connVars, terminate, waitGroup, nextClientPacketID,
                   mailboxVars, connectVars, writerVars, rPkt, terminateFlag,
                   dispVars, callerVars, closerVars, disc, sinkVars, inbound,
                   panicked>>

\* ReaderOnError with a disconnect on every error.
ReaderOnErrorAlwaysDisconnects(err) ==
    /\ rPc' = "disconnecting"
    /\ disc' = [disc EXCEPT ![Reader] = [pc |-> "terminate", err |-> err]]

\* The error cases of startReader's switch: EOF and ErrClosedPipe start a
\* disconnect with the error, every other error continues the loop.
ReaderOnError(err) ==
    IF Cause(err) \in {EOF, ErrClosedPipe}
       THEN /\ rPc' = "disconnecting"
            /\ disc' = [disc EXCEPT ![Reader] = [pc |-> "terminate", err |-> err]]
       ELSE /\ rPc' = "loop"
            /\ UNCHANGED disc

\* The rest of readPacket and the handling of its error: SetDeadline and the
\* blocking decode use c.conn again.  A handle set to nil since the test
\* panics, a closed socket is ErrNotConnected, an open one yields a packet of
\* the server or a read error.
ReaderDecode ==
    /\ Alive
    /\ rPc = "decode"
    /\ IF ~connSet
          THEN /\ panicked' = "reader: nil pointer dereference"
               /\ UNCHANGED <<rPc, rPkt, disc, inbound>>
          ELSE /\ UNCHANGED panicked
               /\ IF sock = "closed"
                     THEN /\ rPc' = "loop"
                          /\ UNCHANGED <<rPkt, disc, inbound>>
                     ELSE \/ /\ inbound < scenario.inbound
                             /\ \E p \in InboundPackets : rPkt' = p
                             /\ inbound' = inbound + 1
                             /\ rPc' = "classify"
                             /\ UNCHANGED disc
                          \/ /\ \E e \in {EOF, ErrClosedPipe, ErrOther} :
                                    ReaderOnError(Wrap(e, "could not read packet"))
                             /\ UNCHANGED <<rPkt, inbound>>
    /\ UNCHANGED <<config, scenario, pureVars, connVars, terminate, waitGroup, nextClientPacketID,
                   mailboxVars, connectVars, writerVars, terminateFlag, dispVars,
                   callerVars, closerVars, sinkVars>>

\* ReaderClassify without the `continue` after the broadcast handler: a
\* broadcast is put on readChan like any other packet.
ReaderClassifyForwardsBroadcast ==
    /\ Alive
    /\ rPc = "classify"
    /\ broadcasts' = IF BroadcastChecker(rPkt) /\ config.hasBroadcastHandler
                        THEN Append(broadcasts, BroadcastCall(rPkt))
                        ELSE broadcasts
    /\ rPc' = "handoff"
    /\ UNCHANGED <<config, scenario, pureVars, connVars, terminate, waitGroup, nextClientPacketID,
                   mailboxVars, connectVars, writerVars, rPkt, terminateFlag,
                   dispVars, callerVars, closerVars, disc, handlerLog, inbound,
                   panicked>>

\* A decoded packet: a broadcast goes to the BroadcastHandler, if one is set,
\* and the loop continues; any other packet is to be put on readChan.
ReaderClassify ==
    /\ Alive
    /\ rPc = "classify"
    /\ IF BroadcastChecker(rPkt)
          THEN /\ broadcasts' = IF config.hasBroadcastHandler
                                   THEN Append(broadcasts, BroadcastCall(rPkt))
                                   ELSE broadcasts
               /\ rPc' = "loop"
               /\ rPkt' = NoPacket
          ELSE /\ rPc' = "handoff"
               /\ UNCHANGED <<broadcasts, rPkt>>
    /\ UNCHANGED <<config, scenario, pureVars, connVars, terminate, waitGroup, nextClientPacketID,
                   mailboxVars, connectVars, writerVars, terminateFlag,
                   dispVars, callerVars, closerVars, disc, handlerLog, inbound,
                   panicked>>

\* case <-time.After(c.QueueWriteTimeout) of the reader's select: the packet
\* is dropped.
ReaderHandoffTimeout ==
    /\ Alive
    /\ rPc = "handoff"
    /\ rPc' = "loop"
    /\ rPkt' = NoPacket
    /\ UNCHANGED <<config, scenario, pureVars, connVars, terminate, waitGroup, nextClientPacketID,
                   mailboxVars, connectVars, writerVars, terminateFlag,
                   dispVars, callerVars, closerVars, disc, sinkVars, inbound,
                   panicked>>

\* --------------------------------------------------------- dispatcher
\* c.readQueue[id]: the mailbox channel of the id, the nil channel (0) when
\* the map has no such key.
Mailbox(id) == IF id \in DOMAIN readQueue THEN readQueue[id] ELSE 0

\* DispatchTarget with the id ignored: whatever mailbox there is.
DispatchTargetAnyMailbox(p) ==
    IF DOMAIN readQueue = {} THEN 0
    ELSE readQueue[CHOOSE i \in DOMAIN readQueue : TRUE]

\* The channel the dispatcher sends packet p on.
DispatchTarget(p) == Mailbox(p.id)

\* case p := <-readChan, the rendezvous with the reader's send, followed by
\* the evaluation of the operands of c.readQueue[p.ID()] <- p.
DispatcherReceive ==
    /\ Alive
    /\ dPc = "select"
    /\ rPc = "handoff"
    /\ dPkt' = rPkt
    /\ dChan' = DispatchTarget(rPkt)
    /\ dPc' = "send"
    /\ rPc' = "loop"
    /\ rPkt' = NoPacket
    /\ UNCHANGED <<config, scenario, pureVars, connVars, terminate, waitGroup, nextClientPacketID,
                   mailboxVars, connectVars, writerVars, terminateFlag,
                   callerVars, closerVars, disc, sinkVars, inbound, panicked>>

\* The send on the mailbox channel meets the receive of getResponse's select.
\* A send on the nil channel never completes: no action leaves that state.
DispatcherDeliver(c) ==
    /\ Alive
    /\ dPc = "send"
    /\ dChan # 0
    /\ dChan \notin chanClosed
    /\ cPc[c] = "waiting"
    /\ cChan[c] = dChan
    /\ cGot' = [cGot EXCEPT ![c] = dPkt]
    /\ cPc' = [cPc EXCEPT ![c] = "remove"]
    /\ dPc' = "select"
    /\ dPkt' = NoPacket
    /\ dChan' = 0
    /\ UNCHANGED <<config, scenario, pureVars, connVars, terminate, waitGroup, nextClientPacketID,
                   mailboxVars, connectVars, writerVars, readerVars, terminateFlag,
                   cKind, cPkt, cChan, cRes, cStart, closerVars, disc, sinkVars, inbound,
                   panicked>>

\* A send on a mailbox channel that getResponse has closed panics.
DispatcherSendClosed ==
    /\ Alive
    /\ dPc = "send"
    /\ dChan \in chanClosed
    /\ panicked' = "dispatcher: send on closed channel"
    /\ UNCHANGED <<config, scenario, pureVars, connVars, terminate, waitGroup, nextClientPacketID,
                   mailboxVars, connectVars, writerVars, readerVars, terminateFlag,
                   dispVars, callerVars, closerVars, disc, sinkVars, inbound>>

\* case <-c.terminate in the dispatcher: set the flag and return.
DispatcherTerminate ==
    /\ Alive
    /\ dPc = "select"
    /\ terminate
    /\ terminateFlag' = TRUE
    /\ dPc' = "exited"
    /\ UNCHANGED <<config, scenario, pureVars, connVars, terminate, waitGroup, nextClientPacketID,
                   mailboxVars, connectVars, writerVars, readerVars, dPkt, dChan,
                   callerVars, closerVars, disc, sinkVars, inbound, panicked>>

\* ------------------------------------------------------------ callers
\* The body of every command sent.
CommandBody == <<99>>

\* The session as a caller finds it: "fresh" before any Connect, "closed"
\* once a disconnect has run to its end, "ready" after a Connect that started
\* the goroutines, "failed" after a Connect that returned an error.
SessionState ==
    IF handlerLog # <<>> THEN (IF connRes = Nil THEN "closed" ELSE "failed")
    ELSE IF connPc = "fresh" THEN "fresh"
    ELSE IF terminate THEN "closing"
    ELSE IF connPc = "returned" /\ connRes = Nil THEN "ready"
    ELSE "failed"

\* ExecCommand ("response") or ExecCommandNoResponse ("noresponse") is
\* called: newClientPacket takes the next id, then enqueuePacket's select.
ExecStart(c, kind) ==
    /\ Alive
    /\ NoConnectRunning
    /\ cPc[c] = "idle"
    /\ c <= scenario.calls
    /\ \A b \in Callers : b < c => cPc[b] # "idle"
    /\ nextClientPacketID' = getNextID(nextClientPacketID, config.restricted)
    /\ cPkt' = [cPkt EXCEPT ![c] = Packet(nextClientPacketID', TypeCommand, CommandBody)]
    /\ cKind' = [cKind EXCEPT ![c] = kind]
    /\ cStart' = [cStart EXCEPT ![c] = SessionState]
    /\ cPc' = [cPc EXCEPT ![c] = "enqueue"]
    /\ UNCHANGED <<config, scenario, pureVars, connVars, terminate, waitGroup, mailboxVars,
                   connectVars, writerVars, readerVars, terminateFlag, dispVars,
                   cChan, cGot, cRes, closerVars, disc, sinkVars, inbound,
                   panicked>>

\* The error ExecCommand and ExecCommandNoResponse return when enqueuePacket
\* timed out.
EnqueueTimeoutError ==
    Wrap(Wrap(ErrQueueTimeout, "packet queue operation timed out"),
         "could not enqueue command packet")

\* case <-time.After(c.QueueWriteTimeout) of enqueuePacket: no goroutine took
\* the packet.
EnqueueTimeout(c) ==
    /\ Alive
    /\ cPc[c] = "enqueue"
    /\ cRes' = [cRes EXCEPT ![c] = [body |-> <<>>, err |-> EnqueueTimeoutError]]
    /\ cPc' = [cPc EXCEPT ![c] = "returned"]
    /\ UNCHANGED <<config, scenario, pureVars, connVars, terminate, waitGroup, nextClientPacketID,
                   mailboxVars, connectVars, writerVars, readerVars, terminateFlag,
                   dispVars, cKind, cPkt, cChan, cGot, cStart, closerVars, disc, sinkVars,
                   inbound, panicked>>

\* enqueuePacket after its send was accepted: c.readQueue[p.ID()] = make(chan).
MakeMailbox(c) ==
    /\ Alive
    /\ cPc[c] = "mailbox"
    /\ chanCount' = chanCount + 1
    /\ readQueue' = [i \in DOMAIN readQueue \cup {cPkt[c].id} |->
                        IF i = cPkt[c].id THEN chanCount + 1 ELSE readQueue[i]]
    /\ cPc' = [cPc EXCEPT ![c] = "getResponse"]
    /\ UNCHANGED <<config, scenario, pureVars, connVars, terminate, waitGroup, nextClientPacketID,
                   chanClosed, connectVars, writerVars, readerVars, terminateFlag,
                   dispVars, cKind, cPkt, cChan, cGot, cRes, cStart, closerVars, disc,
                   sinkVars, inbound, panicked>>

\* getResponse enters its select: the channel operand c.readQueue[packetID]
\* is evaluated once.  When the calls of a run hold distinct ids no other
\* call closes this channel while the call waits on it.
GetResponseEnter(c) ==
    /\ Alive
    /\ cPc[c] = "getResponse"
    /\ cChan' = [cChan EXCEPT ![c] = Mailbox(cPkt[c].id)]
    /\ cPc' = [cPc EXCEPT ![c] = "waiting"]
    /\ UNCHANGED <<config, scenario, pureVars, connVars, terminate, waitGroup, nextClientPacketID,
                   mailboxVars, connectVars, writerVars, readerVars, terminateFlag,
                   dispVars, cKind, cPkt, cGot, cRes, cStart, closerVars, disc, sinkVars,
                   inbound, panicked>>

\* case <-time.After(c.QueueReadTimeout) of getResponse.
GetResponseTimeout(c) ==
    /\ Alive
    /\ cPc[c] = "waiting"
    /\ cRes' = [cRes EXCEPT ![c] =
                   [body |-> <<>>,
                    err |-> Wrap(ErrReadTimeout, "mailbox read operation timed out")]]
    /\ cPc' = [cPc EXCEPT ![c] = "remove"]
    /\ UNCHANGED <<config, scenario, pureVars, connVars, terminate, waitGroup, nextClientPacketID,
                   mailboxVars, connectVars, writerVars, readerVars, terminateFlag,
                   dispVars, cKind, cPkt, cChan, cGot, cStart, closerVars, disc, sinkVars,
                   inbound, panicked>>

\* ExecResult without the removal of the null terminator.
ExecResultKeepsNull(err, res) ==
    IF err # Nil
       THEN [body |-> <<>>, err |-> Wrap(err, "could not get command response")]
       ELSE [body |-> Body(res), err |-> Nil]

\* What ExecCommand returns after getResponse: the wrapped error, or the
\* packet's body without its last byte.
ExecResult(err, res) ==
    IF err # Nil
       THEN [body |-> <<>>, err |-> Wrap(err, "could not get command response")]
       ELSE [body |-> StripLast(Body(res)), err |-> Nil]

\* getResponse's deferred function, close and delete of the mailbox under
\* rqLock, then the rest of ExecCommand.  Closing the nil channel or a closed
\* channel panics, and so does res.Body() on the nil packet.
RemoveMailbox(c) ==
    /\ Alive
    /\ cPc[c] = "remove"
    /\ LET ch == Mailbox(cPkt[c].id)
       IN  IF ch = 0 \/ ch \in chanClosed
              THEN /\ panicked' = "getResponse: close of nil or closed channel"
                   /\ UNCHANGED <<readQueue, chanClosed, cPc, cRes>>
              ELSE /\ chanClosed' = chanClosed \cup {ch}
                   /\ readQueue' = [i \in DOMAIN readQueue \ {cPkt[c].id} |-> readQueue[i]]
                   /\ IF cRes[c].err = Nil /\ cGot[c] = NoPacket
                         THEN /\ panicked' = "ExecCommand: nil pointer dereference"
                              /\ UNCHANGED <<cPc, cRes>>
                         ELSE /\ cRes' = [cRes EXCEPT ![c] = ExecResult(cRes[c].err, cGot[c])]
                              /\ cPc' = [cPc EXCEPT ![c] = "returned"]
                              /\ UNCHANGED panicked
    /\ UNCHANGED <<config, scenario, pureVars, connVars, terminate, waitGroup, nextClientPacketID,
                   chanCount, connectVars, writerVars, readerVars, terminateFlag,
                   dispVars, cKind, cPkt, cChan, cGot, cStart, closerVars, disc, sinkVars,
                   inbound>>

\* ------------------------------------------------- Close and disconnect
\* Close without the test of c.conn: always disconnect(nil).
CloseCallUnchecked(k) ==
    /\ Alive
    /\ NoConnectRunning
    /\ kPc[k] = "idle"
    /\ k <= scenario.closes
    /\ \A j \in Closers : j < k => kPc[j] # "idle"
    /\ kPc' = [kPc EXCEPT ![k] = "disconnecting"]
    /\ disc' = [disc EXCEPT ![k] = [pc |-> "terminate", err |-> Nil]]
    /\ UNCHANGED <<config, scenario, pureVars, connVars, terminate, waitGroup, nextClientPacketID,
                   mailboxVars, connectVars, writerVars, readerVars, terminateFlag,
                   dispVars, callerVars, kRes, sinkVars, inbound, panicked>>

\* Close: ErrNotConnected on a nil handle, otherwise disconnect(nil).
CloseCall(k) ==
    /\ Alive
    /\ NoConnectRunning
    /\ kPc[k] = "idle"
    /\ k <= scenario.closes
    /\ \A j \in Closers : j < k => kPc[j] # "idle"
    /\ IF ~connSet
          THEN /\ kRes' = [kRes EXCEPT ![k] = ErrNotConnected]
               /\ kPc' = [kPc EXCEPT ![k] = "returned"]
               /\ UNCHANGED disc
          ELSE /\ kPc' = [kPc EXCEPT ![k] = "disconnecting"]
               /\ disc' = [disc EXCEPT ![k] = [pc |-> "terminate", err |-> Nil]]
               /\ UNCHANGED kRes
    /\ UNCHANGED <<config, scenario, pureVars, connVars, terminate, waitGroup, nextClientPacketID,
                   mailboxVars, connectVars, writerVars, readerVars, terminateFlag,
                   dispVars, callerVars, sinkVars, inbound, panicked>>

\* DisconnectTerminate as if closing a closed channel did nothing.
DisconnectTerminateIdempotent(t) ==
    /\ Alive
    /\ disc[t].pc = "terminate"
    /\ terminate' = TRUE
    /\ disc' = [disc EXCEPT ![t].pc = "close"]
    /\ UNCHANGED <<config, scenario, pureVars, connVars, waitGroup, nextClientPacketID, mailboxVars,
                   connectVars, writerVars, readerVars, terminateFlag, dispVars,
                   callerVars, closerVars, sinkVars, inbound, panicked>>

\* disconnect, first statement: close(c.terminate).  Closing a channel that
\* is already closed panics.
DisconnectTerminate(t) ==
    /\ Alive
    /\ disc[t].pc = "terminate"
    /\ IF terminate
          THEN /\ panicked' = "disconnect: close of closed channel"
               /\ UNCHANGED <<terminate, disc>>
          ELSE /\ terminate' = TRUE
               /\ disc' = [disc EXCEPT ![t].pc = "close"]
               /\ UNCHANGED panicked
    /\ UNCHANGED <<config, scenario, pureVars, connVars, waitGroup, nextClientPacketID, mailboxVars,
                   connectVars, writerVars, readerVars, terminateFlag, dispVars,
                   callerVars, closerVars, sinkVars, inbound>>

\* DisconnectCloseConn going on to the handler with c.conn left as it is.
DisconnectCloseConnKeepsHandle(t) ==
    /\ Alive
    /\ disc[t].pc = "close"
    /\ connSet
    /\ sock' = "closed"
    /\ disc' = [disc EXCEPT ![t].pc = "handler"]
    /\ UNCHANGED <<config, scenario, pureVars, connSet, terminate, waitGroup, nextClientPacketID,
                   mailboxVars, connectVars, writerVars, readerVars, terminateFlag,
                   dispVars, callerVars, closerVars, sinkVars, inbound, panicked>>

\* disconnect, second statement: _ = c.conn.Close().
DisconnectCloseConn(t) ==
    /\ Alive
    /\ disc[t].pc = "close"
    /\ IF ~connSet
          THEN /\ panicked' = "disconnect: nil pointer dereference"
               /\ UNCHANGED <<sock, disc>>
          ELSE /\ sock' = "closed"
               /\ disc' = [disc EXCEPT ![t].pc = "nil"]
               /\ UNCHANGED panicked
    /\ UNCHANGED <<config, scenario, pureVars, connSet, terminate, waitGroup, nextClientPacketID,
                   mailboxVars, connectVars, writerVars, readerVars, terminateFlag,
                   dispVars, callerVars, closerVars, sinkVars, inbound>>

\* disconnect, third statement: c.conn = nil.
DisconnectNilConn(t) ==
    /\ Alive
    /\ disc[t].pc = "nil"
    /\ connSet' = FALSE
    /\ disc' = [disc EXCEPT ![t].pc = "handler"]
    /\ UNCHANGED <<config, scenario, pureVars, sock, terminate, waitGroup, nextClientPacketID,
                   mailboxVars, connectVars, writerVars, readerVars, terminateFlag,
                   dispVars, callerVars, closerVars, sinkVars, inbound, panicked>>

\* HandlerCall with `expected` always true.
HandlerCallExpected(err, t) == [err |-> err, expected |-> TRUE, by |-> t]

\* The call disconnect(err) makes of the DisconnectHandler, by thread t.
HandlerCall(err, t) == [err |-> err, expected |-> (err = Nil), by |-> t]

\* disconnect, last statement: c.DisconnectHandler(err, err == nil); then the
\* caller goes on: Close returns nil, the reader continues its loop.
DisconnectHandler(t) ==
    /\ Alive
    /\ disc[t].pc = "handler"
    /\ handlerLog' = Append(handlerLog, HandlerCall(disc[t].err, t))
    /\ disc' = [disc EXCEPT ![t] = [pc |-> "none", err |-> Nil]]
    /\ IF t = Reader
          THEN /\ rPc' = "loop"
               /\ UNCHANGED closerVars
          ELSE /\ kPc' = [kPc EXCEPT ![t] = "returned"]
               /\ kRes' = [kRes EXCEPT ![t] = Nil]
               /\ UNCHANGED rPc
    /\ UNCHANGED <<config, scenario, pureVars, connVars, terminate, waitGroup, nextClientPacketID,
                   mailboxVars, connectVars, writerVars, rPkt, terminateFlag,
                   dispVars, callerVars, broadcasts, inbound, panicked>>

\* ------------------------------------------------ the mailbox table
\* The dispatcher goroutine, as a goroutine that uses the mailbox table.
Dispatcher == -1

\* The accesses of c.readQueue that goroutines are about to make: which
\* goroutine, whether it inserts, deletes or reads, and whether it holds
\* rqLock.  enqueuePacket inserts and getResponse's select reads without the
\* lock, getResponse's deferred function deletes under it, and the
\* dispatcher, once it has a packet of the reader, reads without it.
TableAccesses ==
    {[by |-> c, kind |-> "insert", locked |-> FALSE] :
        c \in {d \in Callers : cPc[d] = "mailbox"}}
    \cup {[by |-> c, kind |-> "read", locked |-> FALSE] :
             c \in {d \in Callers : cPc[d] = "getResponse"}}
    \cup {[by |-> c, kind |-> "delete", locked |-> TRUE] :
             c \in {d \in Callers : cPc[d] = "remove"}}
    \cup (IF dPc = "select" /\ rPc = "handoff"
             THEN {[by |-> Dispatcher, kind |-> "read", locked |-> FALSE]}
             ELSE {})

\* ------------------------------------------------------ specification
Next ==
    \/ ConnectDial
    \/ ConnectAuthRead
    \/ ConnectAuthCheck
    \/ WriterStart
    \/ \E c \in Callers : WriterReceive(c)
    \/ WriterSend
    \/ WriterTerminate
    \/ ReaderStart
    \/ ReaderLoop
    \/ ReaderCheckConn
    \/ ReaderDecode
    \/ ReaderClassify
    \/ ReaderHandoffTimeout
    \/ DispatcherReceive
    \/ \E c \in Callers : DispatcherDeliver(c)
    \/ DispatcherSendClosed
    \/ DispatcherTerminate
    \/ \E c \in Callers, kind \in {"response", "noresponse"} : ExecStart(c, kind)
    \/ \E c \in Callers : EnqueueTimeout(c)
    \/ \E c \in Callers : MakeMailbox(c)
    \/ \E c \in Callers : GetResponseEnter(c)
    \/ \E c \in Callers : GetResponseTimeout(c)
    \/ \E c \in Callers : RemoveMailbox(c)
    \/ \E k \in Closers : CloseCall(k)
    \/ \E t \in DiscThreads : DisconnectTerminate(t)
    \/ \E t \in DiscThreads : DisconnectCloseConn(t)
    \/ \E t \in DiscThreads : DisconnectNilConn(t)
    \/ \E t \in DiscThreads : DisconnectHandler(t)

Spec == Init /\ [][Next]_vars

\* ------------------------------------------- calls made at the same time
\* ExecStart takes the next id in one step.  NewClientPacket and getNextID
\* use the package's counter without a lock, so for calls made by several
\* goroutines at once every read and every write of the counter is a step of
\* its own.

\* ExecCommand or ExecCommandNoResponse is called and enters NewClientPacket.
NewClientPacketCall(c, kind) ==
    /\ Alive
    /\ NoConnectRunning
    /\ cPc[c] = "idle"
    /\ c <= scenario.calls
    /\ \A b \in Callers : b < c => cPc[b] # "idle"
    /\ cKind' = [cKind EXCEPT ![c] = kind]
    /\ cStart' = [cStart EXCEPT ![c] = SessionState]
    /\ cPc' = [cPc EXCEPT ![c] = "getNextID"]
    /\ UNCHANGED <<config, scenario, pureVars, connVars, terminate, waitGroup,
                   nextClientPacketID, mailboxVars, connectVars, writerVars,
                   readerVars, terminateFlag, dispVars, cPkt, cChan, cGot, cRes,
                   closerVars, disc, sinkVars, inbound, panicked>>

\* getNextID's if / else, and the same in its loop: the counter is read ...
GetNextIDLoad(c) ==
    /\ Alive
    /\ cPc[c] = "getNextID"
    /\ idReg' = [idReg EXCEPT ![c] = nextClientPacketID]
    /\ cPc' = [cPc EXCEPT ![c] = "increment"]
    /\ UNCHANGED <<config, scenario, allocated, codec, connVars, terminate, waitGroup,
                   nextClientPacketID, mailboxVars, connectVars, writerVars,
                   readerVars, terminateFlag, dispVars, cKind, cPkt, cChan, cGot,
                   cRes, cStart, closerVars, disc, sinkVars, inbound, panicked>>

\* ... and written: 1 in place of MaxInt32, the value read plus one otherwise.
GetNextIDStore(c) ==
    /\ Alive
    /\ cPc[c] = "increment"
    /\ nextClientPacketID' = BumpID(idReg[c])
    /\ cPc' = [cPc EXCEPT ![c] = "test"]
    /\ UNCHANGED <<config, scenario, pureVars, connVars, terminate, waitGroup,
                   mailboxVars, connectVars, writerVars, readerVars, terminateFlag,
                   dispVars, cKind, cPkt, cChan, cGot, cRes, cStart, closerVars,
                   disc, sinkVars, inbound, panicked>>

\* for idInArr(restrictedIDs, nextClientPacketID): a restricted value of the
\* counter is incremented again, any other is returned.
GetNextIDTest(c) ==
    /\ Alive
    /\ cPc[c] = "test"
    /\ cPc' = [cPc EXCEPT ![c] = IF nextClientPacketID \in config.restricted
                                    THEN "getNextID" ELSE "return"]
    /\ UNCHANGED <<config, scenario, pureVars, connVars, terminate, waitGroup,
                   nextClientPacketID, mailboxVars, connectVars, writerVars,
                   readerVars, terminateFlag, dispVars, cKind, cPkt, cChan, cGot,
                   cRes, cStart, closerVars, disc, sinkVars, inbound, panicked>>

\* return nextClientPacketID.
GetNextIDReturn(c) ==
    /\ Alive
    /\ cPc[c] = "return"
    /\ idReg' = [idReg EXCEPT ![c] = nextClientPacketID]
    /\ cPc' = [cPc EXCEPT ![c] = "assign"]
    /\ UNCHANGED <<config, scenario, allocated, codec, connVars, terminate, waitGroup,
                   nextClientPacketID, mailboxVars, connectVars, writerVars,
                   readerVars, terminateFlag, dispVars, cKind, cPkt, cChan, cGot,
                   cRes, cStart, closerVars, disc, sinkVars, inbound, panicked>>

\* NewClientPacket: nextClientPacketID = getNextID(restrictedIDs).
NewClientPacketAssign(c) ==
    /\ Alive
    /\ cPc[c] = "assign"
    /\ nextClientPacketID' = idReg[c]
    /\ cPc' = [cPc EXCEPT ![c] = "build"]
    /\ UNCHANGED <<config, scenario, pureVars, connVars, terminate, waitGroup,
                   mailboxVars, connectVars, writerVars, readerVars, terminateFlag,
                   dispVars, cKind, cPkt, cChan, cGot, cRes, cStart, closerVars,
                   disc, sinkVars, inbound, panicked>>

\* NewClientPacket: the packet is made with id: nextClientPacketID, the
\* counter as it is now; then enqueuePacket's select.
NewClientPacketBuild(c) ==
    /\ Alive
    /\ cPc[c] = "build"
    /\ cPkt' = [cPkt EXCEPT ![c] = Packet(nextClientPacketID, TypeCommand, CommandBody)]
    /\ cPc' = [cPc EXCEPT ![c] = "enqueue"]
    /\ UNCHANGED <<config, scenario, pureVars, connVars, terminate, waitGroup,
                   nextClientPacketID, mailboxVars, connectVars, writerVars,
                   readerVars, terminateFlag, dispVars, cKind, cChan, cGot, cRes,
                   cStart, closerVars, disc, sinkVars, inbound, panicked>>

\* case p := <-c.readQueue[packetID] on a channel that a call holding the
\* same id has closed: the receive yields the nil packet at once, and
\* getResponse returns it with a nil error.
GetResponseClosed(c) ==
    /\ Alive
    /\ cPc[c] = "waiting"
    /\ cChan[c] \in chanClosed
    /\ cGot' = [cGot EXCEPT ![c] = NoPacket]
    /\ cPc' = [cPc EXCEPT ![c] = "remove"]
    /\ UNCHANGED <<config, scenario, pureVars, connVars, terminate, waitGroup,
                   nextClientPacketID, mailboxVars, connectVars, writerVars,
                   readerVars, terminateFlag, dispVars, cKind, cPkt, cChan, cRes,
                   cStart, closerVars, disc, sinkVars, inbound, panicked>>

\* A session as Connect and the start of its goroutines leave it, on a client
\* with a restricted id: the AUTH packet took id 1, the writer and the
\* dispatcher are in their select, the reader is in its read.
ReadySession ==
    /\ connSet = TRUE
    /\ sock = "open"
    /\ terminate = FALSE
    /\ waitGroup = 2
    /\ nextClientPacketID = 1
    /\ readQueue = <<>>
    /\ chanCount = 0
    /\ chanClosed = {}
    /\ connPc = "returned" /\ connRes = Nil /\ authRes = NoPacket
    /\ connects = 1
    /\ wPc = "select" /\ wPkt = NoPacket /\ sent = <<>>
    /\ rPc = "decode" /\ rPkt = NoPacket
    /\ terminateFlag = FALSE
    /\ dPc = "select" /\ dPkt = NoPacket /\ dChan = 0
    /\ cPc = [c \in Callers |-> "idle"]
    /\ cKind = [c \in Callers |-> "none"]
    /\ cStart = [c \in Callers |-> "none"]
    /\ cPkt = [c \in Callers |-> NoPacket]
    /\ cChan = [c \in Callers |-> 0]
    /\ cGot = [c \in Callers |-> NoPacket]
    /\ cRes = [c \in Callers |-> [body |-> <<>>, err |-> Nil]]
    /\ kPc = [k \in Closers |-> "idle"]
    /\ kRes = [k \in Closers |-> Nil]
    /\ disc = [t \in DiscThreads |-> [pc |-> "none", err |-> Nil]]
    /\ handlerLog = <<>>
    /\ broadcasts = <<>>
    /\ inbound = 0
    /\ panicked = ""

\* Commands called by different goroutines on a connected session whose
\* server stays silent: the reader remains in its read, and every call that
\* waits for an answer ends by its timeout.
ConcurrentInit ==
    /\ scenario = [config |-> RestrictedConfig, calls |-> MaxCalls, closes |-> 0,
                   inbound |-> 0, connects |-> 1]
    /\ config = RestrictedConfig
    /\ allocated = <<>>
    /\ idReg = [c \in Callers |-> 0]
    /\ codec = NoCodec
    /\ ReadySession

ConcurrentNext ==
    \/ \E c \in Callers, kind \in {"response", "noresponse"} : NewClientPacketCall(c, kind)
    \/ \E c \in Callers : GetNextIDLoad(c)
    \/ \E c \in Callers : GetNextIDStore(c)
    \/ \E c \in Callers : GetNextIDTest(c)
    \/ \E c \in Callers : GetNextIDReturn(c)
    \/ \E c \in Callers : NewClientPacketAssign(c)
    \/ \E c \in Callers : NewClientPacketBuild(c)
    \/ \E c \in Callers : WriterReceive(c)
    \/ WriterSend
    \/ \E c \in Callers : EnqueueTimeout(c)
    \/ \E c \in Callers : MakeMailbox(c)
    \/ \E c \in Callers : GetResponseEnter(c)
    \/ \E c \in Callers : GetResponseTimeout(c)
    \/ \E c \in Callers : GetResponseClosed(c)
    \/ \E c \in Callers : RemoveMailbox(c)

ConcurrentSpec == ConcurrentInit /\ [][ConcurrentNext]_vars

\* =============================================================== claims

\* The answer to the AUTH packet that lets Connect succeed.
ValidAuthAnswer(res) == res.type = TypeAuthRes /\ res.id # AuthFailedID

\* C1: Connect succeeds only if the packet read after the AUTH packet has
\* type AUTH_RES and an id other than -1; for every other answer Connect
\* returns an Authentication error and starts neither the writer nor the
\* reader.
C1_AuthGate ==
    [][(connPc = "authRead" /\ connPc' = "returned") =>
          /\ connRes' = Nil => ValidAuthAnswer(authRes)
          /\ ~ValidAuthAnswer(authRes) =>
                /\ Cause(connRes') = ErrAuthentication
                /\ wPc' = "none"
                /\ rPc' = "none"]_vars

\* C2: an ExecCommand made on a freshly constructed client, and returning
\* before any Connect, returns the NotConnected error.
C2_FreshExecNotConnected ==
    \A c \in Callers :
        (cPc[c] = "returned" /\ cKind[c] = "response" /\ connPc = "fresh") =>
            Cause(cRes[c].err) = ErrNotConnected

\* C3: an ExecCommand called on a session that has been closed, by Close or
\* by the reader's disconnect, returns the NotConnected error.
C3_ClosedExecNotConnected ==
    \A c \in Callers :
        (cPc[c] = "returned" /\ cKind[c] = "response" /\ cStart[c] = "closed") =>
            Cause(cRes[c].err) = ErrNotConnected

\* C4: in every execution of one session the disconnect handler is invoked
\* at most once, also when a Close races with the reader's disconnect or
\* with another Close.
C4_HandlerAtMostOnce == Len(handlerLog) <= 1

\* Two disconnects raced: one ran to its handler, the other was stopped at
\* close(c.terminate).
C4_Witness ==
    /\ Len(handlerLog) = 1
    /\ \E t \in DiscThreads : disc[t].pc = "terminate"
    /\ panicked = "disconnect: close of closed channel"

\* C5: a caller of ExecCommand only ever receives a packet whose id is the
\* id of the packet it sent, and the dispatcher sends a packet only on the
\* mailbox channel stored under the packet's id.
C5_Correlation ==
    /\ [](\A c \in Callers : cGot[c] # NoPacket => cGot[c].id = cPkt[c].id)
    /\ [][(dPc = "select" /\ dPc' = "send") =>
             /\ ~BroadcastChecker(dPkt')
             /\ dChan' = Mailbox(dPkt'.id)
             /\ \A i \in DOMAIN readQueue :
                   i # dPkt'.id => readQueue[i] # dChan']_vars

\* Both callers received their own answer.
C5_Witness ==
    /\ \A c \in Callers : cGot[c] # NoPacket /\ cPc[c] = "returned"
    /\ cPkt[1].id # cPkt[2].id

\* C6: a packet that is no broadcast and whose id has no mailbox is dropped
\* and the reader keeps dispatching, so the dispatcher is never left waiting
\* to deliver a packet for which there is no mailbox.
C6_UnmatchedDropped == ~(dPc = "send" /\ dChan = 0)

\* C7: a packet the broadcast checker accepts is given to the broadcast
\* handler, when one is set, with its body; it is never handed to the
\* dispatcher or to a caller, and the step leaves the mailbox table as it is.
C7_BroadcastRouting ==
    /\ [](/\ \A c \in Callers : cGot[c] # NoPacket => ~BroadcastChecker(cGot[c])
          /\ dPkt # NoPacket => ~BroadcastChecker(dPkt))
    /\ [][(rPc = "classify" /\ rPc' # "classify" /\ BroadcastChecker(rPkt)) =>
             /\ readQueue' = readQueue
             /\ chanClosed' = chanClosed
             /\ rPc' = "loop"
             /\ config.hasBroadcastHandler =>
                   /\ Len(broadcasts') = Len(broadcasts) + 1
                   /\ broadcasts'[Len(broadcasts')].body = rPkt.body
             /\ ~config.hasBroadcastHandler => broadcasts' = broadcasts]_vars

\* A broadcast was given to the handler while a mailbox of its id existed.
C7_Witness ==
    \E i \in 1..Len(broadcasts) : broadcasts[i].hadMailbox

\* C9: Close on a nil socket handle returns NotConnected and changes nothing
\* else; a Close called after a Close that returned nil returns NotConnected.
C9_CloseNotConnected ==
    [][\A k \in Closers :
          (kPc[k] = "idle" /\ kPc'[k] # "idle" /\
           (~connSet \/ \E j \in Closers : kPc[j] = "returned" /\ kRes[j] = Nil)) =>
             /\ kPc'[k] = "returned"
             /\ kRes'[k] = ErrNotConnected
             /\ terminate' = terminate
             /\ handlerLog' = handlerLog
             /\ connSet' = connSet
             /\ sock' = sock
             /\ disc' = disc]_vars

\* The second of two sequential Close calls on a connected session has
\* returned NotConnected.
C9_Witness ==
    /\ connRes = Nil /\ wPc # "none"
    /\ kPc[1] = "returned" /\ kRes[1] = Nil
    /\ kPc[2] = "returned" /\ kRes[2] = ErrNotConnected
    /\ Len(handlerLog) = 1

\* C10: the disconnect handler is called with a nil error and expected =
\* TRUE exactly when Close started the disconnect, and with the error that
\* caused it and expected = FALSE when the reader did.
C10_HandlerArguments ==
    \A i \in 1..Len(handlerLog) :
        LET h == handlerLog[i]
        IN  /\ h.by \in Closers => h.err = Nil /\ h.expected
            /\ h.by = Reader =>
                  /\ h.err # Nil
                  /\ Cause(h.err) \in {EOF, ErrClosedPipe}
                  /\ ~h.expected

\* The reader started the disconnect and the handler was called.
C10_Witness ==
    /\ Len(handlerLog) = 1
    /\ handlerLog[1].by = Reader
    /\ rPc # "disconnecting"

\* C11: when the answer to the AUTH packet has type AUTH_RES and id -1,
\* Connect returns the Authentication error; a Connect that returns it
\* starts no goroutine, and on a session whose only Connect returned it
\* neither goroutine is ever started and no ExecCommand returns without an
\* error.
C11_AuthFailedSession ==
    /\ [][(connPc = "authRead" /\ connPc' = "returned" /\
           authRes.type = TypeAuthRes /\ authRes.id = AuthFailedID) =>
             Cause(connRes') = ErrAuthentication]_vars
    /\ [][(connPc # "returned" /\ connPc' = "returned" /\
           Cause(connRes') = ErrAuthentication) =>
             /\ wPc' = wPc /\ rPc' = rPc /\ dPc' = dPc
             /\ waitGroup' = waitGroup]_vars
    /\ []((Cause(connRes) = ErrAuthentication /\ connects = 1) =>
             /\ wPc = "none" /\ rPc = "none" /\ dPc = "none"
             /\ waitGroup = 0
             /\ \A c \in Callers : cPc[c] = "returned" => cRes[c].err # Nil)

\* Connect failed on an id of -1 and an ExecCommand made afterwards returned.
C11_Witness ==
    /\ Cause(connRes) = ErrAuthentication
    /\ \E c \in Callers :
          cPc[c] = "returned" /\ cKind[c] = "response" /\ cStart[c] = "failed"

\* C12: every id the allocator returns lies in [1, 2^31 - 2] and is not in
\* the restricted set; 0 is never returned.
C12_AllocatedInRange ==
    \A i \in 1..Len(allocated) :
        /\ allocated[i].id >= 1
        /\ allocated[i].id <= MaxInt32 - 1
        /\ allocated[i].id \notin config.restricted

\* With restricted ids configured, a full run of allocations went through
\* the wrap.
C12_Witness ==
    /\ Len(allocated) = MaxAllocs
    /\ config.restricted # {}
    /\ \E i \in 1..Len(allocated) : allocated[i].id < allocated[i].from

\* The successor in the cyclic order 1, 2, ..., 2^31 - 2, 1, ...
CycleSucc(x) == IF x >= MaxInt32 - 1 THEN 1 ELSE x + 1

RECURSIVE CycleIter(_, _)
CycleIter(x, j) == IF j = 0 THEN x ELSE CycleIter(CycleSucc(x), j - 1)

\* The first value after c in the cyclic order that is not in R.
FirstFree(c, R) ==
    LET J == {j \in 1..(Cardinality(R) + 1) : CycleIter(c, j) \notin R}
    IN  CycleIter(c, CHOOSE j \in J : \A k \in J : j <= k)

\* C13: an allocation made with the counter at c returns the first value
\* after c, in the cyclic order 1, 2, ..., 2^31 - 2, 1, ..., that is not
\* restricted: 1 from 2^31 - 2 when 1 is not restricted, 13 from 10 with
\* 10, 11 and 12 restricted.
C13_NextInCyclicOrder ==
    \A i \in 1..Len(allocated) :
        LET a == allocated[i]
        IN  /\ a.id = FirstFree(a.from, config.restricted)
            /\ (a.from = MaxInt32 - 1 /\ 1 \notin config.restricted) => a.id = 1
            /\ (a.from = 10 /\ config.restricted = {10, 11, 12}) => a.id = 13

\* The allocation from 10 with 10, 11 and 12 restricted was made.
C13_Witness ==
    /\ config.restricted = {10, 11, 12}
    /\ \E i \in 1..Len(allocated) : allocated[i].from = 10 /\ allocated[i].id = 13

\* b without some run of null and newline bytes at its end.
TrailingTrimmed(b) ==
    {SubSeq(b, 1, n) : n \in {k \in 0..Len(b) :
                                \A i \in (k + 1)..Len(b) : b[i] \in {NullByte, NewlineByte}}}

\* C14: for a body without null bytes whose frame is shorter than 2048
\* bytes, decoding what Build produced gives a packet with the same id and
\* type and with the same body, except that null and newline bytes may have
\* been removed from the end of the body.
C14_RoundTrip ==
    (/\ codec.pc = "decoded"
     /\ Len(codec.pkt.body) + 10 < payloadMaxSize
     /\ \A i \in 1..Len(codec.pkt.body) : codec.pkt.body[i] # NullByte) =>
        /\ codec.decoded.err = Nil
        /\ ~codec.decoded.panic
        /\ codec.decoded.pkt.id = codec.pkt.id
        /\ codec.decoded.pkt.type = codec.pkt.type
        /\ codec.decoded.pkt.body \in TrailingTrimmed(codec.pkt.body)

\* C15: the size field Build writes is the encoded length minus 4, which is
\* the length of the body plus 10, and is what Size returns.
C15_SizeField ==
    codec.pc \in {"built", "decoded"} =>
        /\ GetInt32(codec.mode, SubSeq(codec.out.bytes, 1, 4)) = Len(codec.out.bytes) - 4
        /\ Len(codec.out.bytes) - 4 = Len(codec.pkt.body) + 10
        /\ Size(codec.pkt) = Len(codec.pkt.body) + 10

\* A big-endian packet with a body of the greatest short length was built.
C15_Witness ==
    /\ codec.pc = "built"
    /\ codec.mode = "big"
    /\ Len(codec.pkt.body) = MaxBodyLen

\* C16: building a packet whose serialized length (body plus 14) would be
\* 2048 bytes or more fails and produces no bytes.
C16_FrameTooLarge ==
    (/\ codec.pc \in {"built", "builtPayload"}
     /\ Len(codec.pkt.body) + 14 >= payloadMaxSize) =>
        /\ codec.out.err # Nil
        /\ codec.out.bytes = <<>>

\* C17: a caller of ExecCommand is given a packet only by the dispatcher's
\* send on the mailbox channel of its own id; the call returns without error
\* only with the body of that packet, and when no packet was delivered before
\* the queue-read timeout it returns the ReadTimeout error and an empty body.
C17_ExecCommandResult ==
    [][\A c \in Callers :
          /\ cGot'[c] # cGot[c] =>
                /\ dPc = "send"
                /\ cGot'[c] = dPkt
                /\ dChan = cChan[c]
                /\ dChan = Mailbox(cPkt[c].id)
          /\ (cPc[c] = "remove" /\ cPc'[c] = "returned") =>
                IF cGot[c] # NoPacket
                   THEN /\ cRes'[c] = [body |-> cGot[c].body, err |-> Nil]
                        /\ cGot[c].id = cPkt[c].id
                   ELSE /\ Cause(cRes'[c].err) = ErrReadTimeout
                        /\ cRes'[c].body = <<>>]_vars

\* One ExecCommand returned the body of its answer, another the ReadTimeout
\* error.
C17_Witness ==
    \E c, d \in Callers :
        /\ cPc[c] = "returned" /\ cRes[c].err = Nil /\ cGot[c] # NoPacket
        /\ cRes[c].body = cGot[c].body /\ cRes[c].body # <<>>
        /\ cPc[d] = "returned" /\ Cause(cRes[d].err) = ErrReadTimeout

\* C18: no step of an ExecCommandNoResponse call changes the mailbox table;
\* the call returns nil in the step in which the writer takes its packet,
\* and the QueueTimeout error when the queue-write timeout fires first.
C18_NoResponseCall ==
    [][\A c \in Callers :
          (cKind'[c] = "noresponse" /\ cPc'[c] # cPc[c]) =>
             /\ mailboxVars' = mailboxVars
             /\ cPc'[c] \in {"enqueue", "returned"}
             /\ cPc'[c] = "returned" =>
                   \/ /\ wPc = "select" /\ wPc' = "send" /\ wPkt' = cPkt[c]
                      /\ cRes'[c].err = Nil
                   \/ /\ writerVars' = writerVars
                      /\ Cause(cRes'[c].err) = ErrQueueTimeout]_vars

\* On a connected session one ExecCommandNoResponse returned nil and another
\* the QueueTimeout error, and no mailbox was made.
C18_Witness ==
    /\ chanCount = 0
    /\ \E c, d \in Callers :
          /\ cKind[c] = "noresponse" /\ cPc[c] = "returned" /\ cRes[c].err = Nil
          /\ cKind[d] = "noresponse" /\ cPc[d] = "returned" /\ cStart[d] = "ready"
          /\ Cause(cRes[d].err) = ErrQueueTimeout

\* C19: after a Connect that succeeded, the wait group's counter is zero,
\* so that a Wait on it completes, only when the writer and the reader
\* goroutine have both exited.
C19_WaitGroupCoversGoroutines ==
    (connPc = "returned" /\ connRes = Nil /\ wPc # "none" /\ waitGroup = 0) =>
        (wPc = "exited" /\ rPc = "exited")

\* C21: the terminate channel is closed at most once in a session, however
\* the Close calls and the reader's disconnect on EOF or ErrClosedPipe
\* interleave: no execution reaches a second close(c.terminate).
C21_TerminateClosedOnce == panicked # "disconnect: close of closed channel"

\* C22: while an ExecCommand call is in progress whose packet the writer
\* holds or has written, the mailbox table has an entry for the packet's id.
C22_MailboxBeforeWriter ==
    \A c \in Callers :
        (/\ cKind[c] = "response"
         /\ cPc[c] \notin {"idle", "returned"}
         /\ \/ wPkt = cPkt[c]
            \/ \E i \in 1..Len(sent) : sent[i] = cPkt[c]) =>
            cPkt[c].id \in DOMAIN readQueue

\* C25: an insertion into the mailbox table or a removal from it never
\* coincides with another goroutine's access of the table: of two goroutines
\* about to access it, one of them inserting or deleting, both hold rqLock,
\* which lets one of them in at a time.
C25_TableExclusion ==
    Alive =>
        \A a, b \in TableAccesses :
            (a.by # b.by /\ (a.kind # "read" \/ b.kind # "read")) =>
                (a.locked /\ b.locked)

\* C26: a send attempted when disconnect has set c.conn to nil, such as the
\* writer's send of a packet it took from the queue after the close, yields
\* ErrNotConnected and never uses the nil handle.
C26_SendAfterNilHandle == panicked # "writer: nil pointer dereference"

\* C27: every disconnect takes its steps in the order close(c.terminate),
\* c.conn.Close(), c.conn = nil, DisconnectHandler; the handler is called
\* only when the terminate channel is closed and c.conn is nil.
C27_DisconnectOrder ==
    /\ [][\A t \in DiscThreads :
             disc'[t].pc # disc[t].pc =>
                \/ /\ disc[t].pc = "none" /\ disc'[t].pc = "terminate"
                \/ /\ disc[t].pc = "terminate" /\ disc'[t].pc = "close"
                   /\ ~terminate /\ terminate'
                   /\ connVars' = connVars /\ handlerLog' = handlerLog
                \/ /\ disc[t].pc = "close" /\ disc'[t].pc = "nil"
                   /\ terminate /\ sock' = "closed"
                   /\ connSet' = connSet /\ handlerLog' = handlerLog
                \/ /\ disc[t].pc = "nil" /\ disc'[t].pc = "handler"
                   /\ terminate /\ sock = "closed" /\ ~connSet'
                   /\ handlerLog' = handlerLog
                \/ /\ disc[t].pc = "handler" /\ disc'[t].pc = "none"
                   /\ terminate /\ sock = "closed" /\ ~connSet
                   /\ handlerLog' = Append(handlerLog, HandlerCall(disc[t].err, t))]_vars
    /\ [](\A t \in DiscThreads : disc[t].pc = "handler" => terminate /\ ~connSet)
    /\ [][handlerLog' # handlerLog => terminate /\ ~connSet /\ sock = "closed"]_vars

\* A disconnect ran to its end: the handler was called, the signal is
\* fired, the socket is closed and the handle is nil.
C27_Witness ==
    /\ Len(handlerLog) = 1
    /\ terminate /\ sock = "closed" /\ ~connSet
    /\ \A t \in DiscThreads : disc[t].pc = "none"

\* C28: once a session is closed no call of Connect, Close or ExecCommand
\* takes it back: c.conn is never set again and no goroutine is started
\* again.
C28_ClosedIsFinal ==
    [][handlerLog # <<>> =>
          /\ connSet' => connSet
          /\ wPc' = "start" => wPc = "start"
          /\ rPc' = "start" => rPc = "start"]_vars

\* C29: the reader starts a disconnect only on a read error whose cause is
\* EOF or ErrClosedPipe, once, and with that error; on ErrNotConnected and on
\* every other read error it starts none and goes on with the next read.
C29_ReaderDisconnect ==
    /\ [][disc'[Reader] # disc[Reader] /\ disc[Reader].pc = "none" =>
             /\ rPc = "decode" /\ rPc' = "disconnecting"
             /\ connSet /\ sock = "open"
             /\ disc'[Reader].pc = "terminate"
             /\ Cause(disc'[Reader].err) \in {EOF, ErrClosedPipe}]_vars
    /\ [][(rPc \in {"read", "decode"} /\ rPc' \notin {rPc, "disconnecting"}) =>
             /\ disc' = disc
             /\ rPc' \in {"loop", "decode", "classify"}]_vars
    /\ [][(rPc' # rPc /\ \/ rPc = "read" /\ ~connSet
                         \/ rPc = "decode" /\ connSet /\ sock = "closed") =>
             /\ rPc' = "loop"
             /\ disc' = disc /\ handlerLog' = handlerLog]_vars
    /\ [](/\ \A i \in 1..Len(handlerLog) :
                handlerLog[i].by = Reader =>
                   Cause(handlerLog[i].err) \in {EOF, ErrClosedPipe}
          /\ Cardinality({i \in 1..Len(handlerLog) : handlerLog[i].by = Reader}) <= 1)

\* The reader's disconnect ran to the handler with an error whose cause is
\* ErrClosedPipe, and the reader then left its loop.
C29_Witness ==
    /\ handlerLog # <<>>
    /\ handlerLog[1].by = Reader
    /\ Cause(handlerLog[1].err) = ErrClosedPipe
    /\ rPc = "exited"

\* C30: the writer holds one packet at a time, and every packet written to
\* the socket is the packet it holds, put after all the packets written
\* before: the packets are written in the order in which the writer took
\* them from writeQueue, none twice.
C30_WriteOrder ==
    /\ [][sent' # sent =>
             /\ wPc = "send" /\ wPc' = "select"
             /\ wPkt # NoPacket /\ wPkt' = NoPacket
             /\ sent' = Append(sent, wPkt)]_vars
    /\ [][wPkt' # wPkt =>
             \/ /\ wPc = "select" /\ wPc' = "send" /\ wPkt = NoPacket
                /\ sent' = sent
                /\ \E c \in Callers : cPc[c] = "enqueue" /\ wPkt' = cPkt[c]
             \/ /\ wPc = "send" /\ wPc' = "select" /\ wPkt' = NoPacket]_vars
    /\ [](\A i, j \in 1..Len(sent) : sent[i] = sent[j] => i = j)

\* The packet of the second call was taken and written before the packet of
\* the first.
C30_Witness ==
    /\ Len(sent) = 2
    /\ sent[1] = cPkt[2]
    /\ sent[2] = cPkt[1]

\* A call of ExecCommand that holds a packet and has not returned.
Outstanding(c) ==
    /\ cKind[c] = "response"
    /\ cPc[c] \in {"enqueue", "mailbox", "getResponse", "waiting", "remove"}

\* C23: no two ExecCommand calls outstanding at the same time hold the same
\* packet id, also when they are called by different goroutines at once.
C23_DistinctIDs ==
    \A c, d \in Callers :
        (c # d /\ Outstanding(c) /\ Outstanding(d)) => cPkt[c].id # cPkt[d].id

\* C24: every mailbox that an ExecCommand call made is closed and deleted,
\* once, before the call returns, after a receive as after a timeout: no
\* call closes a channel that is nil or closed, a returning call closes the
\* channel stored under its id and deletes the entry, and when no call is in
\* progress the table is empty and every channel made is closed.
C24_MailboxRemovedOnce ==
    /\ [](panicked # "getResponse: close of nil or closed channel")
    /\ [][\A c \in Callers :
             (cPc[c] = "remove" /\ cPc'[c] = "returned") =>
                /\ Mailbox(cPkt[c].id) \notin chanClosed \cup {0}
                /\ chanClosed' = chanClosed \cup {Mailbox(cPkt[c].id)}
                /\ DOMAIN readQueue' = DOMAIN readQueue \ {cPkt[c].id}]_vars
    /\ []((\A c \in Callers : cPc[c] \in {"idle", "returned"}) =>
             /\ readQueue = <<>>
             /\ chanClosed = 1..chanCount)

\* The bytes of the body of a frame that holds as many bytes as its size
\* field announces.
WireBody(mode, w) == SubSeq(w, 13, 4 + GetInt32(mode, SubSeq(w, 1, 4)))

\* C31: the body of a packet decoded from an accepted frame ends with
\* neither a null byte nor a newline byte, and is the body on the wire
\* without null and newline bytes at its end: nothing else was removed.
C31_DecodedBodyTrimmed ==
    (/\ codec.pc \in {"decodedFrame", "decodedPayload"}
     /\ codec.decoded.err = Nil
     /\ ~codec.decoded.panic) =>
        LET body == codec.decoded.pkt.body
        IN  /\ body = <<>> \/ body[Len(body)] \notin {NullByte, NewlineByte}
            /\ body \in TrailingTrimmed(WireBody(codec.mode, codec.wire))

\* C34: for every announced size DecodeClientPacket returns a packet or an
\* error and never panics; a complete frame of size 8 is accepted with an
\* empty body.
C34_DecodeNeverCrashes ==
    codec.pc = "decodedFrame" =>
        /\ ~codec.decoded.panic
        /\ codec.decoded.err # Nil \/ codec.decoded.pkt # NoPacket
        /\ (Len(codec.wire) >= 12 /\ GetInt32(codec.mode, SubSeq(codec.wire, 1, 4)) = 8) =>
              /\ codec.decoded.err = Nil
              /\ codec.decoded.pkt.body = <<>>

\* C32: the dispatcher never sends on a mailbox channel that is closed,
\* however a caller's timeout and removal in getResponse interleave with the
\* delivery of a packet of the same id.
C32_NoSendOnClosed == panicked # "dispatcher: send on closed channel"

\* C33: when Connect returns an error the session holds no open socket:
\* c.conn is nil and the socket of the dial, if any, is closed.
C33_FailedConnectClosesSocket ==
    [][(connPc # "returned" /\ connPc' = "returned" /\ connRes' # Nil) =>
          /\ ~connSet'
          /\ sock' # "open"]_vars

\* ------------------------------------------------- goroutine scheduling
\* A run of one command, one Close and one packet.
FairInit ==
    InitOf([config |-> DefaultConfig, calls |-> 1, closes |-> 1, inbound |-> 1,
            connects |-> 1])

\* The Go scheduler runs every goroutine that can take a step, and every
\* timer fires; the calls of the embedding program are not forced.
Fairness ==
    /\ WF_vars(ConnectAuthRead) /\ WF_vars(ConnectAuthCheck)
    /\ WF_vars(WriterStart) /\ WF_vars(WriterSend) /\ WF_vars(WriterTerminate)
    /\ WF_vars(ReaderStart) /\ WF_vars(ReaderLoop) /\ WF_vars(ReaderCheckConn)
    /\ WF_vars(ReaderDecode) /\ WF_vars(ReaderClassify)
    /\ WF_vars(ReaderHandoffTimeout) /\ WF_vars(DispatcherReceive)
    /\ WF_vars(DispatcherSendClosed) /\ WF_vars(DispatcherTerminate)
    /\ \A c \in Callers :
          /\ WF_vars(WriterReceive(c)) /\ WF_vars(DispatcherDeliver(c))
          /\ WF_vars(EnqueueTimeout(c)) /\ WF_vars(MakeMailbox(c))
          /\ WF_vars(GetResponseEnter(c)) /\ WF_vars(GetResponseTimeout(c))
          /\ WF_vars(RemoveMailbox(c))
    /\ \A t \in DiscThreads :
          /\ WF_vars(DisconnectTerminate(t)) /\ WF_vars(DisconnectCloseConn(t))
          /\ WF_vars(DisconnectNilConn(t)) /\ WF_vars(DisconnectHandler(t))

FairSpec == FairInit /\ [][Next]_vars /\ Fairness

\* C8: once a disconnect has been started on a connected session, the reader
\* and the writer goroutine eventually exit and the wait group reaches zero
\* (a process ended by a panic counts as having exited).
C8_GoroutinesExit ==
    (terminate /\ wPc # "none") ~>
        ((rPc = "exited" /\ wPc = "exited" /\ waitGroup = 0) \/ ~Alive)

\* C20: every ExecCommand call that was made eventually returns to its
\* caller, whatever the session's state and however it interleaves with
\* Close, the writer and the reader.
C20_ExecCommandReturns ==
    \A c \in Callers :
        (cKind[c] = "response" /\ cPc[c] \notin {"idle", "returned"}) ~>
            (cPc[c] = "returned")

====
